---- MODULE Spec2Model ----
(***************************************************************************)
(* A model of the NanoLog runtime: the per-thread StagingBuffer (a single  *)
(* producer / single consumer byte ring), the NanoLog singleton (buffer    *)
(* registry, background compression thread, asynchronous output, sync and  *)
(* shutdown) and the decompressor's command line.                          *)
(*                                                                         *)
(* Offsets stand for the char* positions of the code: offset p is the      *)
(* pointer storage + p.                                                    *)
(***************************************************************************)
EXTENDS Integers, Sequences, FiniteSets, TLC

\* NanoLogConfig::STAGING_BUFFER_SIZE, scaled down.
STAGING_BUFFER_SIZE == 6

\* Number of payload bytes one thread logs in a run of the ring.
MaxBytes == 12

\* The producer threads of the ring specification.
RingThreads == {1}

\* Threads of the model: user threads that may log.
Threads == {1, 2, 3}

\* The threads that run against the background thread.
LoggerThreads == {1, 2}

\* The null thread-local pointer.
NULL == 0

\* The value of a storage byte nobody wrote: storage() zero-initialises.
ZeroByte == <<0, 0>>

\* The k-th payload byte thread t writes.
Stamp(t, k) == <<t, k>>

\* Record sizes a caller may ask for: 0 < n < STAGING_BUFFER_SIZE / 2.
RecordSizes == {n \in 1..STAGING_BUFFER_SIZE : 2 * n < STAGING_BUFFER_SIZE}

VARIABLES
    heap,               \* heap[t]: the StagingBuffer object thread t allocated
    alloc,              \* alloc[t]: lifetime of that object
    stagingBuffer,      \* the __thread pointer of each thread (NULL or t)
    tpc,                \* position of each user thread in its code
    nbytes,             \* argument of the reserve/commit in progress
    resPtr,             \* pointer returned by reserveProducerSpace
    cachedConsumerPos,  \* local of reserveSpaceInternal
    logged,             \* bytes the thread has written so far
    committed,          \* history: bytes committed to the thread's buffer
    consumed,           \* history: bytes the consumer took from it
    unread,             \* history: offsets holding committed, unconsumed bytes
    wpc,                \* position of the consumer in peek/consume
    cur,                \* buffer the consumer works on
    cachedProducerPos,  \* local of peek
    bytesAvailable,     \* *bytesAvailable of the last peek, less what was consumed
    threadBuffers,      \* NanoLog: the registry, a vector of StagingBuffer*
    nextBufferId,       \* NanoLog: id of the next StagingBuffer
    bufferId,           \* local of ensureStagingBufferAllocated
    destroyedBy,        \* history: who deleted the buffer, "" while it lives
    deletable,          \* history: shouldDeallocate and consumerPos = producerPos
                        \*          held when the buffer was deleted
    compressionThreadShouldExit,
    syncRequested,
    hasOutstandingOperation,
    snap,               \* worker: the registry as copied at the start of a pass
    idx,                \* worker: position of the pass in snap
    passBytes,          \* worker: bytes the pass has taken from the buffers
    draining,           \* worker: compressionThreadShouldExit as last noticed
    bufMem,             \* the two output buffers, by address
    compressingBuffer,  \* address of the buffer the worker compresses into
    outputDoubleBuffer, \* address of its double buffer
    aioCb,              \* the asynchronous write request
    disk,               \* the bytes of the output file
    outputOpen,         \* whether outputFd is open
    dtor,               \* position of ~NanoLog
    syncBase,           \* history: bytes committed when the thread called sync()
    shutdownBase,       \* history: bytes not on disk when shutdown was signalled
    totalBytesWritten,  \* metric: bytes written to the output file, padding included
    padBytesWritten,    \* metric: pad bytes written
    fileOffset,         \* aioCb.aio_offset of the next submission
    argc,               \* decompressor: number of command line arguments
    countArg,           \* decompressor: argv[2], a string of characters
    fileOpenable,       \* decompressor: whether argv[1] can be opened
    fileRecords,        \* decompressor: number of records in the log file
    dpc,                \* decompressor: position in main
    msgsToPrint,        \* decompressor: local of main
    exitCode,           \* decompressor: exit status once dpc = "exited"
    diagnostic,         \* decompressor: the message main printed, if any
    rendered            \* decompressor: records written to stdout, in order

ringVars == <<heap, alloc, stagingBuffer, tpc, nbytes, resPtr,
              cachedConsumerPos, logged, committed, consumed, unread,
              wpc, cur, cachedProducerPos, bytesAvailable>>

decoderVars == <<argc, countArg, fileOpenable, fileRecords, dpc, msgsToPrint,
                 exitCode, diagnostic, rendered>>

registryVars == <<threadBuffers, nextBufferId, bufferId, destroyedBy, deletable>>

outputVars == <<compressionThreadShouldExit, syncRequested,
                hasOutstandingOperation, snap, idx, passBytes, draining,
                bufMem, compressingBuffer, outputDoubleBuffer, aioCb, disk,
                outputOpen, dtor, syncBase, shutdownBase, totalBytesWritten,
                padBytesWritten, fileOffset>>

loggerVars == <<registryVars, outputVars>>

vars == <<ringVars, loggerVars, decoderVars>>

-----------------------------------------------------------------------------
(* StagingBuffer *)

\* StagingBuffer::StagingBuffer(bufferId)
StagingBuffer(anId) ==
    [producerPos        |-> 0,
     endOfRecordedSpace |-> STAGING_BUFFER_SIZE,
     minFreeSpace       |-> STAGING_BUFFER_SIZE,
     consumerPos        |-> 0,
     shouldDeallocate   |-> FALSE,
     id                 |-> anId,
     storage            |-> [i \in 0..(STAGING_BUFFER_SIZE - 1) |-> ZeroByte]]

\* The test of reserveProducerSpace's fast in-line path.
reserveProducerSpace_LE(b, n) == n <= b.minFreeSpace

reserveProducerSpace(b, n) == n < b.minFreeSpace

\* finishReservation(nbytes): both fields move by nbytes.
finishReservation_KeepFree(b, n) ==
    [b EXCEPT !.producerPos = b.producerPos + n]

finishReservation(b, n) ==
    [b EXCEPT !.minFreeSpace = b.minFreeSpace - n,
              !.producerPos = b.producerPos + n]

\* The two assertions at the head of finishReservation.
finishReservationAsserts(b, n) ==
    /\ n < b.minFreeSpace
    /\ b.producerPos + n < STAGING_BUFFER_SIZE

\* consume(nbytes)
consume_Reclaim(b, n) ==
    [b EXCEPT !.consumerPos = b.consumerPos + n,
              !.minFreeSpace = b.minFreeSpace + n]

consume(b, n) == [b EXCEPT !.consumerPos = b.consumerPos + n]

\* checkCanDelete()
checkCanDelete_NoOwnerCheck(b) == b.consumerPos = b.producerPos

checkCanDelete(b) == b.shouldDeallocate /\ b.consumerPos = b.producerPos

\* reserveSpaceInternal, first half of one turn of its loop: with the copy
\* of consumerPos just taken, recompute minFreeSpace.  The result says
\* whether the space before the end of storage was too small (wrap).
reserveSpaceInternal_recompute(b, n, cached) ==
    IF cached <= b.producerPos
    THEN [buf  |-> [b EXCEPT !.minFreeSpace = STAGING_BUFFER_SIZE - b.producerPos],
          wrap |-> ~(STAGING_BUFFER_SIZE - b.producerPos > n)]
    ELSE [buf  |-> [b EXCEPT !.minFreeSpace = cached - b.producerPos],
          wrap |-> FALSE]

\* reserveSpaceInternal, marking the wrap: endOfRecordedSpace = producerPos.
reserveSpaceInternal_mark_Skip(b) == b

reserveSpaceInternal_mark(b) ==
    [b EXCEPT !.endOfRecordedSpace = b.producerPos]

\* reserveSpaceInternal: may producerPos go back to the start?  Not onto
\* the consumer: producerPos = consumerPos means an empty buffer.
reserveSpaceInternal_mayReset_Always(cached) == TRUE

reserveSpaceInternal_mayReset_Never(cached) == FALSE

reserveSpaceInternal_mayReset(cached) == cached # 0

\* reserveSpaceInternal, the reset: producerPos = storage, and the free
\* space is what lies before the consumer.
reserveSpaceInternal_reset(b, cached) ==
    [b EXCEPT !.producerPos = 0, !.minFreeSpace = cached]

\* peek, after the copy of producerPos was taken and found not to be
\* behind consumerPos (or after the roll over): the span up to it.
peek_span(b, cachedPos) == cachedPos - b.consumerPos

\* peek, the producer has wrapped: the span up to endOfRecordedSpace.
peek_spanToEnd(b) == b.endOfRecordedSpace - b.consumerPos

\* peek, roll over: consumerPos = storage.
peek_rollOver(b) == [b EXCEPT !.consumerPos = 0]

\* The n bytes from offset p; a position outside storage reads as garbage,
\* which no committed byte equals.
Garbage == <<0, 1>>
ReadBytes(b, p, n) ==
    [i \in 1..n |-> IF p + i - 1 \in DOMAIN b.storage
                    THEN b.storage[p + i - 1] ELSE Garbage]

\* memcpy of thread t's next n payload bytes to offset p.
WriteBytes(b, t, p, n, k) ==
    [b EXCEPT !.storage =
        [i \in DOMAIN b.storage |->
            IF i >= p /\ i < p + n THEN Stamp(t, k + (i - p) + 1)
            ELSE b.storage[i]]]

-----------------------------------------------------------------------------
(* The producer: reserveProducerSpace(n), the payload write, finishReservation(n) *)

\* __internal_reserveAlloc(n) on an allocated buffer: the fast path returns
\* producerPos, the slow one enters reserveSpaceInternal.
Reserve(t, n) ==
    /\ tpc[t] = "idle"
    /\ stagingBuffer[t] # NULL
    /\ logged[t] + n <= MaxBytes
    /\ nbytes' = [nbytes EXCEPT ![t] = n]
    /\ IF reserveProducerSpace(heap[t], n)
       THEN /\ resPtr' = [resPtr EXCEPT ![t] = heap[t].producerPos]
            /\ tpc' = [tpc EXCEPT ![t] = "write"]
       ELSE /\ tpc' = [tpc EXCEPT ![t] = "slow"]
            /\ UNCHANGED resPtr
    /\ UNCHANGED <<loggerVars, decoderVars>>
    /\ UNCHANGED <<heap, alloc, stagingBuffer, cachedConsumerPos, logged,
                   committed, consumed, unread, wpc, cur, cachedProducerPos,
                   bytesAvailable>>

\* reserveSpaceInternal: one turn of the loop up to the wrap decision.
ReserveSlow(t) ==
    /\ tpc[t] = "slow"
    /\ LET cached == heap[t].consumerPos
           r == reserveSpaceInternal_recompute(heap[t], nbytes[t], cached)
       IN /\ cachedConsumerPos' = [cachedConsumerPos EXCEPT ![t] = cached]
          /\ heap' = [heap EXCEPT ![t] = r.buf]
          /\ IF r.wrap
             THEN tpc' = [tpc EXCEPT ![t] = "mark"] /\ UNCHANGED resPtr
             ELSE IF r.buf.minFreeSpace <= nbytes[t]
             THEN tpc' = [tpc EXCEPT ![t] = "slow"] /\ UNCHANGED resPtr
             ELSE /\ tpc' = [tpc EXCEPT ![t] = "write"]
                  /\ resPtr' = [resPtr EXCEPT ![t] = r.buf.producerPos]
    /\ UNCHANGED <<loggerVars, decoderVars>>
    /\ UNCHANGED <<alloc, stagingBuffer, nbytes, logged, committed, consumed,
                   unread, wpc, cur, cachedProducerPos, bytesAvailable>>

\* reserveSpaceInternal: the wrap is marked; the producer then goes back
\* to the start, or waits for the consumer to leave it.
ReserveMark(t) ==
    /\ tpc[t] = "mark"
    /\ heap' = [heap EXCEPT ![t] = reserveSpaceInternal_mark(heap[t])]
    /\ tpc' = [tpc EXCEPT ![t] =
                 IF reserveSpaceInternal_mayReset(cachedConsumerPos[t])
                 THEN "reset" ELSE "slow"]
    /\ UNCHANGED <<loggerVars, decoderVars>>
    /\ UNCHANGED <<alloc, stagingBuffer, nbytes, resPtr, cachedConsumerPos,
                   logged, committed, consumed, unread, wpc, cur,
                   cachedProducerPos, bytesAvailable>>

\* reserveSpaceInternal: producerPos goes back to the start.
ReserveReset(t) ==
    /\ tpc[t] = "reset"
    /\ LET b == reserveSpaceInternal_reset(heap[t], cachedConsumerPos[t])
       IN /\ heap' = [heap EXCEPT ![t] = b]
          /\ IF b.minFreeSpace <= nbytes[t]
             THEN tpc' = [tpc EXCEPT ![t] = "slow"] /\ UNCHANGED resPtr
             ELSE /\ tpc' = [tpc EXCEPT ![t] = "write"]
                  /\ resPtr' = [resPtr EXCEPT ![t] = b.producerPos]
    /\ UNCHANGED <<loggerVars, decoderVars>>
    /\ UNCHANGED <<alloc, stagingBuffer, nbytes, cachedConsumerPos, logged,
                   committed, consumed, unread, wpc, cur, cachedProducerPos,
                   bytesAvailable>>

\* The generated code fills the reservation.
WritePayload(t) ==
    /\ tpc[t] = "write"
    /\ heap' = [heap EXCEPT ![t] =
                  WriteBytes(heap[t], t, resPtr[t], nbytes[t], logged[t])]
    /\ tpc' = [tpc EXCEPT ![t] = "commit"]
    /\ UNCHANGED <<loggerVars, decoderVars>>
    /\ UNCHANGED <<alloc, stagingBuffer, nbytes, resPtr, cachedConsumerPos,
                   logged, committed, consumed, unread, wpc, cur,
                   cachedProducerPos, bytesAvailable>>

\* __internal_finishAlloc(n)
Commit(t) ==
    /\ tpc[t] = "commit"
    /\ LET n == nbytes[t]
           p == heap[t].producerPos
       IN /\ heap' = [heap EXCEPT ![t] = finishReservation(heap[t], n)]
          /\ committed' = [committed EXCEPT ![t] =
                             @ \o [i \in 1..n |-> Stamp(t, logged[t] + i)]]
          /\ unread' = [unread EXCEPT ![t] = @ \cup (p..(p + n - 1))]
          /\ logged' = [logged EXCEPT ![t] = @ + n]
    /\ tpc' = [tpc EXCEPT ![t] = "idle"]
    /\ UNCHANGED <<loggerVars, decoderVars>>
    /\ UNCHANGED <<alloc, stagingBuffer, nbytes, resPtr, cachedConsumerPos,
                   consumed, wpc, cur, cachedProducerPos, bytesAvailable>>

-----------------------------------------------------------------------------
(* The consumer: peek and consume *)

\* peek: the copy of producerPos is taken.
PeekStart(c) ==
    /\ wpc = "idle"
    /\ alloc[c] = "live"
    /\ cur' = c
    /\ cachedProducerPos' = heap[c].producerPos
    /\ IF heap[c].producerPos < heap[c].consumerPos
       THEN wpc' = "peekEnd" /\ UNCHANGED bytesAvailable
       ELSE /\ wpc' = "peeked"
            /\ bytesAvailable' = peek_span(heap[c], heap[c].producerPos)
    /\ UNCHANGED <<loggerVars, decoderVars>>
    /\ UNCHANGED <<heap, alloc, stagingBuffer, tpc, nbytes, resPtr,
                   cachedConsumerPos, logged, committed, consumed, unread>>

\* peek: the producer is behind, so the data ends at endOfRecordedSpace.
PeekEnd ==
    /\ wpc = "peekEnd"
    /\ IF peek_spanToEnd(heap[cur]) > 0
       THEN wpc' = "peeked" /\ bytesAvailable' = peek_spanToEnd(heap[cur])
       ELSE wpc' = "peekRoll" /\ UNCHANGED bytesAvailable
    /\ UNCHANGED <<loggerVars, decoderVars>>
    /\ UNCHANGED <<heap, alloc, stagingBuffer, tpc, nbytes, resPtr,
                   cachedConsumerPos, logged, committed, consumed, unread,
                   cur, cachedProducerPos>>

\* peek: roll over to the start and report the span up to producerPos.
PeekRoll ==
    /\ wpc = "peekRoll"
    /\ LET b == peek_rollOver(heap[cur])
       IN /\ heap' = [heap EXCEPT ![cur] = b]
          /\ bytesAvailable' = peek_span(b, cachedProducerPos)
    /\ wpc' = "peeked"
    /\ UNCHANGED <<loggerVars, decoderVars>>
    /\ UNCHANGED <<alloc, stagingBuffer, tpc, nbytes, resPtr,
                   cachedConsumerPos, logged, committed, consumed, unread,
                   cur, cachedProducerPos>>

\* The consumer reads k of the bytes peek reported and consumes them.
Consume(k) ==
    /\ wpc = "peeked"
    /\ k \in 1..bytesAvailable
    /\ LET p == heap[cur].consumerPos
       IN /\ consumed' = [consumed EXCEPT ![cur] =
                            @ \o ReadBytes(heap[cur], p, k)]
          /\ unread' = [unread EXCEPT ![cur] = @ \ (p..(p + k - 1))]
    /\ heap' = [heap EXCEPT ![cur] = consume(heap[cur], k)]
    /\ bytesAvailable' = bytesAvailable - k
    /\ UNCHANGED <<loggerVars, decoderVars>>
    /\ UNCHANGED <<alloc, stagingBuffer, tpc, nbytes, resPtr,
                   cachedConsumerPos, logged, committed, wpc, cur,
                   cachedProducerPos>>

\* The consumer leaves the buffer (nothing there, or enough for now).
PeekDone ==
    /\ wpc = "peeked"
    /\ wpc' = "idle"
    /\ UNCHANGED <<loggerVars, decoderVars>>
    /\ UNCHANGED <<heap, alloc, stagingBuffer, tpc, nbytes, resPtr,
                   cachedConsumerPos, logged, committed, consumed, unread,
                   cur, cachedProducerPos, bytesAvailable>>

-----------------------------------------------------------------------------
(* One StagingBuffer, its producer and its consumer *)

\* The NanoLog singleton after construction.
InitLogger ==
    /\ threadBuffers = <<>>
    /\ nextBufferId = 1
    /\ bufferId = [t \in Threads |-> 0]
    /\ destroyedBy = [t \in Threads |-> ""]
    /\ deletable = [t \in Threads |-> FALSE]
    /\ totalBytesWritten = 0
    /\ padBytesWritten = 0
    /\ fileOffset = 0
    /\ compressionThreadShouldExit = FALSE
    /\ syncRequested = FALSE
    /\ hasOutstandingOperation = FALSE
    /\ snap = <<>>
    /\ idx = 1
    /\ passBytes = 0
    /\ draining = FALSE
    /\ bufMem = [a \in 0..1 |-> <<>>]
    /\ compressingBuffer = 0
    /\ outputDoubleBuffer = 1
    /\ aioCb = [buf |-> 0, state |-> "none"]
    /\ disk = <<>>
    /\ outputOpen = TRUE
    /\ dtor = "alive"
    /\ syncBase = [t \in Threads |-> {}]
    /\ shutdownBase = {}

\* The decompressor is a program of its own: it does not run here.
InitDecoderIdle ==
    /\ argc = 1
    /\ countArg = <<>>
    /\ fileOpenable = FALSE
    /\ fileRecords = 0
    /\ dpc = "exited"
    /\ msgsToPrint = 0
    /\ exitCode = 0
    /\ diagnostic = ""
    /\ rendered = <<>>

InitThreadLocals ==
    /\ tpc = [t \in Threads |-> "idle"]
    /\ nbytes = [t \in Threads |-> 0]
    /\ resPtr = [t \in Threads |-> 0]
    /\ cachedConsumerPos = [t \in Threads |-> 0]
    /\ logged = [t \in Threads |-> 0]
    /\ committed = [t \in Threads |-> <<>>]
    /\ consumed = [t \in Threads |-> <<>>]
    /\ unread = [t \in Threads |-> {}]
    /\ cur = 1
    /\ cachedProducerPos = 0
    /\ bytesAvailable = 0

\* No thread has a buffer yet.
InitRingIdle ==
    /\ InitThreadLocals
    /\ wpc = "idle"
    /\ heap = [t \in Threads |-> StagingBuffer(0)]
    /\ alloc = [t \in Threads |-> "none"]
    /\ stagingBuffer = [t \in Threads |-> NULL]

InitRing ==
    /\ InitThreadLocals
    /\ wpc = "idle"
    /\ InitDecoderIdle
    /\ InitLogger
    /\ heap = [t \in Threads |-> StagingBuffer(IF t \in RingThreads THEN t ELSE 0)]
    /\ alloc = [t \in Threads |-> IF t \in RingThreads THEN "live" ELSE "none"]
    /\ stagingBuffer = [t \in Threads |-> IF t \in RingThreads THEN t ELSE NULL]

NextRing ==
    \/ \E t \in RingThreads, n \in RecordSizes : Reserve(t, n)
    \/ \E t \in RingThreads : ReserveSlow(t)
    \/ \E t \in RingThreads : ReserveMark(t)
    \/ \E t \in RingThreads : ReserveReset(t)
    \/ \E t \in RingThreads : WritePayload(t)
    \/ \E t \in RingThreads : Commit(t)
    \/ \E c \in RingThreads : PeekStart(c)
    \/ PeekEnd
    \/ PeekRoll
    \/ \E k \in 1..STAGING_BUFFER_SIZE : Consume(k)
    \/ PeekDone

SpecRing == InitRing /\ [][NextRing]_vars

\* The worker leaves a buffer once it has consumed all that peek reported.
PeekLeave == bytesAvailable = 0 /\ PeekDone

\* The steps of a worker that keeps peeking and consuming.
NextConsumer ==
    \/ \E c \in RingThreads : PeekStart(c)
    \/ PeekEnd
    \/ PeekRoll
    \/ \E k \in 1..STAGING_BUFFER_SIZE : Consume(k)
    \/ PeekLeave

\* The steps of thread t inside reserveSpaceInternal.
NextReserveInternal(t) == ReserveSlow(t) \/ ReserveMark(t) \/ ReserveReset(t)

NextRingLive ==
    \/ \E t \in RingThreads, n \in RecordSizes : Reserve(t, n)
    \/ \E t \in RingThreads : ReserveSlow(t)
    \/ \E t \in RingThreads : ReserveMark(t)
    \/ \E t \in RingThreads : ReserveReset(t)
    \/ \E t \in RingThreads : WritePayload(t)
    \/ \E t \in RingThreads : Commit(t)
    \/ \E c \in RingThreads : PeekStart(c)
    \/ PeekEnd
    \/ PeekRoll
    \/ \E k \in 1..STAGING_BUFFER_SIZE : Consume(k)
    \/ PeekLeave

\* One buffer with a weakly fair worker and a producer that, once inside
\* reserveSpaceInternal, keeps spinning.
SpecRingLive ==
    /\ InitRing
    /\ [][NextRingLive]_vars
    /\ WF_vars(NextConsumer)
    /\ \A t \in RingThreads : WF_vars(NextReserveInternal(t))

-----------------------------------------------------------------------------
(* Allocation of the thread-local StagingBuffer, and the end of a thread *)

\* nextBufferId++ : the value nextBufferId holds afterwards.
ensureStagingBufferAllocated_nextId_Same(next) == next

ensureStagingBufferAllocated_nextId(next) == next + 1

\* threadBuffers.push_back(stagingBuffer)
ensureStagingBufferAllocated_pushBack_Skip(registry, b) == registry

ensureStagingBufferAllocated_pushBack(registry, b) == Append(registry, b)

\* ensureStagingBufferAllocated, lines 231-236: with bufferMutex held the
\* id is taken; the mutex is released.
Ensure_AssignId(t) ==
    /\ tpc[t] = "idle"
    /\ stagingBuffer[t] = NULL
    /\ alloc[t] = "none"
    /\ bufferId' = [bufferId EXCEPT ![t] = nextBufferId]
    /\ nextBufferId' = ensureStagingBufferAllocated_nextId(nextBufferId)
    /\ tpc' = [tpc EXCEPT ![t] = "new"]
    /\ UNCHANGED <<outputVars, decoderVars>>
    /\ UNCHANGED <<heap, alloc, stagingBuffer, nbytes, resPtr,
                   cachedConsumerPos, logged, committed, consumed, unread,
                   wpc, cur, cachedProducerPos, bytesAvailable>>
    /\ UNCHANGED <<threadBuffers, destroyedBy, deletable>>

\* ensureStagingBufferAllocated, line 237: the buffer is allocated with the
\* mutex released.
Ensure_New(t) ==
    /\ tpc[t] = "new"
    /\ heap' = [heap EXCEPT ![t] = StagingBuffer(bufferId[t])]
    /\ alloc' = [alloc EXCEPT ![t] = "live"]
    /\ stagingBuffer' = [stagingBuffer EXCEPT ![t] = t]
    /\ tpc' = [tpc EXCEPT ![t] = "pushBack"]
    /\ UNCHANGED <<outputVars, decoderVars>>
    /\ UNCHANGED <<nbytes, resPtr, cachedConsumerPos, logged, committed,
                   consumed, unread, wpc, cur, cachedProducerPos,
                   bytesAvailable>>
    /\ UNCHANGED <<threadBuffers, nextBufferId, bufferId, destroyedBy,
                   deletable>>

\* ensureStagingBufferAllocated, lines 238-241: the mutex is taken again and
\* the buffer is appended to the registry.
Ensure_PushBack(t) ==
    /\ tpc[t] = "pushBack"
    /\ threadBuffers' =
         ensureStagingBufferAllocated_pushBack(threadBuffers, stagingBuffer[t])
    /\ tpc' = [tpc EXCEPT ![t] = "idle"]
    /\ UNCHANGED <<outputVars, decoderVars>>
    /\ UNCHANGED <<heap, alloc, stagingBuffer, nbytes, resPtr,
                   cachedConsumerPos, logged, committed, consumed, unread,
                   wpc, cur, cachedProducerPos, bytesAvailable>>
    /\ UNCHANGED <<nextBufferId, bufferId, destroyedBy, deletable>>

\* ~StagingBufferDestroyer, line 506: stagingBuffer->shouldDeallocate = true.
StagingBufferDestroyer_dtor_Forget(b) == b

StagingBufferDestroyer_dtor(b) == [b EXCEPT !.shouldDeallocate = TRUE]

\* ~StagingBufferDestroyer at the end of a thread.
ThreadExit(t) ==
    /\ tpc[t] = "idle"
    /\ tpc' = [tpc EXCEPT ![t] = "dead"]
    /\ IF stagingBuffer[t] # NULL
       THEN /\ heap' = [heap EXCEPT ![stagingBuffer[t]] =
                                StagingBufferDestroyer_dtor(@)]
            /\ stagingBuffer' = [stagingBuffer EXCEPT ![t] = NULL]
       ELSE UNCHANGED <<heap, stagingBuffer>>
    /\ UNCHANGED <<outputVars, decoderVars>>
    /\ UNCHANGED <<alloc, nbytes, resPtr, cachedConsumerPos, logged,
                   committed, consumed, unread, wpc, cur, cachedProducerPos,
                   bytesAvailable>>
    /\ UNCHANGED <<threadBuffers, nextBufferId, bufferId, destroyedBy,
                   deletable>>

\* Threads that preallocate() or log for the first time, and end.
InitAlloc ==
    /\ InitRingIdle
    /\ InitDecoderIdle
    /\ InitLogger

NextAlloc ==
    \/ \E t \in Threads : Ensure_AssignId(t)
    \/ \E t \in Threads : Ensure_New(t)
    \/ \E t \in Threads : Ensure_PushBack(t)
    \/ \E t \in Threads : ThreadExit(t)

SpecAlloc == InitAlloc /\ [][NextAlloc]_vars

\* One buffer, its producer, which ends at some point, and its consumer.
NextRingExit ==
    \/ \E t \in RingThreads, n \in RecordSizes : Reserve(t, n)
    \/ \E t \in RingThreads : ReserveSlow(t)
    \/ \E t \in RingThreads : ReserveMark(t)
    \/ \E t \in RingThreads : ReserveReset(t)
    \/ \E t \in RingThreads : WritePayload(t)
    \/ \E t \in RingThreads : Commit(t)
    \/ \E t \in RingThreads : ThreadExit(t)
    \/ \E c \in RingThreads : PeekStart(c)
    \/ PeekEnd
    \/ PeekRoll
    \/ \E k \in 1..STAGING_BUFFER_SIZE : Consume(k)
    \/ PeekDone

SpecRingExit == InitRing /\ [][NextRingExit]_vars

-----------------------------------------------------------------------------
(* The background thread, sync() and ~NanoLog *)

\* NanoLogConfig::OUTPUT_BUFFER_SIZE, scaled down: records one output buffer holds.
OUTPUT_BUFFER_SIZE == 2

\* The high-water mark past which the worker rotates: half the buffer.
HighWaterMark == OUTPUT_BUFFER_SIZE \div 2

\* NanoLogConfig::FILE_ALIGNMENT_BYTES (A), scaled down.
FILE_ALIGNMENT_BYTES == 2

\* Number of one-byte records a thread logs in a run of the logger.
MaxLogs == 2

\* The threads that call sync(); the others only log.
SyncThreads == {1}

threadVars == <<stagingBuffer, tpc, nbytes, resPtr, cachedConsumerPos, logged,
                committed>>

Range(s) == {s[i] : i \in DOMAIN s}

\* The bytes whose asynchronous write has completed.
OnDisk == Range(disk)

\* The bytes committed to any buffer so far.
AllCommitted == UNION {Range(committed[t]) : t \in Threads}

\* StagingBuffer::peek as one step: the buffer after the call and
\* *bytesAvailable.
peek(b) ==
    IF b.producerPos < b.consumerPos
    THEN IF peek_spanToEnd(b) > 0
         THEN [buf |-> b, bytes |-> peek_spanToEnd(b)]
         ELSE [buf |-> peek_rollOver(b),
               bytes |-> peek_span(peek_rollOver(b), b.producerPos)]
    ELSE [buf |-> b, bytes |-> peek_span(b, b.producerPos)]

\* The pad bytes that bring a length to the next multiple of A.
padBytes_None(len) == 0

padBytes(len) ==
    (FILE_ALIGNMENT_BYTES - (len % FILE_ALIGNMENT_BYTES)) % FILE_ALIGNMENT_BYTES

\* The compressing buffer padded with zero bytes for its submission.
padded(buf) == buf \o [i \in 1..padBytes(Len(buf)) |-> ZeroByte]

\* Worker, step 3: does the pass end with a rotation?
worker_rotates(filled, sync) == filled > HighWaterMark \/ sync

\* Worker, step 3: the compressing buffer and the idle double buffer swap.
worker_swap_None(compressing, idle) ==
    [compressingBuffer |-> compressing, outputDoubleBuffer |-> idle]

worker_swap(compressing, idle) ==
    [compressingBuffer |-> idle, outputDoubleBuffer |-> compressing]

\* An asynchronous write is outstanding: submitted and not yet completed.
Outstanding_Ignored == FALSE

Outstanding == hasOutstandingOperation /\ aioCb.state = "pending"

\* Worker, step 4: the pass signals hintQueueEmptied.
worker_signals(bytes, outstanding) == bytes = 0 /\ ~outstanding

\* Worker, step 1: compressionThreadShouldExit is noticed, the registry is
\* copied under bufferMutex.
Worker_Loop ==
    /\ wpc = "loop"
    /\ draining' = compressionThreadShouldExit
    /\ snap' = threadBuffers
    /\ idx' = 1
    /\ passBytes' = 0
    /\ wpc' = "scan"
    /\ UNCHANGED <<registryVars, decoderVars, threadVars>>
    /\ UNCHANGED <<heap, alloc, consumed, unread, cur, cachedProducerPos,
                   bytesAvailable>>
    /\ UNCHANGED <<compressionThreadShouldExit, syncRequested,
                   hasOutstandingOperation, bufMem, compressingBuffer,
                   outputDoubleBuffer, aioCb, disk, outputOpen, dtor,
                   syncBase, shutdownBase,
                   totalBytesWritten, padBytesWritten, fileOffset>>

\* Worker, step 2: peek at the next buffer of the pass.
Worker_Peek ==
    /\ wpc = "scan"
    /\ idx <= Len(snap)
    /\ LET b == snap[idx]
           r == peek(heap[b])
       IN /\ cur' = b
          /\ cachedProducerPos' = heap[b].producerPos
          /\ heap' = [heap EXCEPT ![b] = r.buf]
          /\ bytesAvailable' = r.bytes
          /\ wpc' = IF r.bytes = 0 THEN "empty" ELSE "compress"
    /\ UNCHANGED <<registryVars, outputVars, decoderVars, threadVars>>
    /\ UNCHANGED <<alloc, consumed, unread>>

\* Worker, step 2, nothing to read: the buffer is unregistered and destroyed
\* if canDelete(), else left alone.
Worker_Empty ==
    /\ wpc = "empty"
    /\ IF checkCanDelete(heap[cur])
       THEN /\ threadBuffers' = SelectSeq(threadBuffers, LAMBDA x : x # cur)
            /\ alloc' = [alloc EXCEPT ![cur] = "destroyed"]
            /\ destroyedBy' = [destroyedBy EXCEPT ![cur] = "worker"]
            /\ deletable' = [deletable EXCEPT ![cur] =
                               /\ heap[cur].shouldDeallocate
                               /\ heap[cur].consumerPos = heap[cur].producerPos]
       ELSE UNCHANGED <<threadBuffers, alloc, destroyedBy, deletable>>
    /\ idx' = idx + 1
    /\ wpc' = "scan"
    /\ UNCHANGED <<decoderVars, threadVars>>
    /\ UNCHANGED <<heap, consumed, unread, cur, cachedProducerPos,
                   bytesAvailable, nextBufferId, bufferId>>
    /\ UNCHANGED <<compressionThreadShouldExit, syncRequested,
                   hasOutstandingOperation, snap, passBytes, draining, bufMem,
                   compressingBuffer, outputDoubleBuffer, aioCb, disk,
                   outputOpen, dtor, syncBase, shutdownBase,
                   totalBytesWritten, padBytesWritten, fileOffset>>

\* Worker, step 2: the next record is compressed into the compressing buffer
\* and consumed, while records are left and fit; then the pass moves on.
Worker_Compress ==
    /\ wpc = "compress"
    /\ IF bytesAvailable > 0 /\ Len(bufMem[compressingBuffer]) < OUTPUT_BUFFER_SIZE
       THEN LET p == heap[cur].consumerPos
                rec == ReadBytes(heap[cur], p, 1)
            IN /\ bufMem' = [bufMem EXCEPT ![compressingBuffer] = @ \o rec]
               /\ heap' = [heap EXCEPT ![cur] = consume(heap[cur], 1)]
               /\ consumed' = [consumed EXCEPT ![cur] = @ \o rec]
               /\ unread' = [unread EXCEPT ![cur] = @ \ {p}]
               /\ bytesAvailable' = bytesAvailable - 1
               /\ passBytes' = passBytes + 1
               /\ UNCHANGED <<idx, wpc>>
       ELSE /\ idx' = idx + 1
            /\ wpc' = "scan"
            /\ UNCHANGED <<bufMem, heap, consumed, unread, bytesAvailable,
                           passBytes>>
    /\ UNCHANGED <<registryVars, decoderVars, threadVars>>
    /\ UNCHANGED <<alloc, cur, cachedProducerPos>>
    /\ UNCHANGED <<compressionThreadShouldExit, syncRequested,
                   hasOutstandingOperation, snap, draining, compressingBuffer,
                   outputDoubleBuffer, aioCb, disk, outputOpen, dtor,
                   syncBase, shutdownBase,
                   totalBytesWritten, padBytesWritten, fileOffset>>

\* Worker, step 3: every buffer of the pass was visited; rotate or not.
Worker_PassEnd ==
    /\ wpc = "scan"
    /\ idx > Len(snap)
    /\ wpc' = IF worker_rotates(Len(bufMem[compressingBuffer]), syncRequested)
              THEN "rotate" ELSE "hint"
    /\ UNCHANGED <<registryVars, outputVars, decoderVars, threadVars>>
    /\ UNCHANGED <<heap, alloc, consumed, unread, cur, cachedProducerPos,
                   bytesAvailable>>

\* Worker, step 3, the rotation: wait for the outstanding write, submit the
\* compressing buffer, swap the two buffers, reset the new compressing one.
Worker_Rotate ==
    /\ wpc = "rotate"
    /\ ~Outstanding
    /\ LET out == padded(bufMem[compressingBuffer])
       IN /\ bufMem' = [bufMem EXCEPT ![compressingBuffer] = out,
                                      ![outputDoubleBuffer] = <<>>]
          /\ padBytesWritten' =
                padBytesWritten + padBytes(Len(bufMem[compressingBuffer]))
          /\ totalBytesWritten' = totalBytesWritten + Len(out)
          /\ fileOffset' = fileOffset + Len(out)
    /\ aioCb' = [buf |-> compressingBuffer, state |-> "pending"]
    /\ hasOutstandingOperation' = TRUE
    /\ compressingBuffer' =
          worker_swap(compressingBuffer, outputDoubleBuffer).compressingBuffer
    /\ outputDoubleBuffer' =
          worker_swap(compressingBuffer, outputDoubleBuffer).outputDoubleBuffer
    /\ wpc' = "hint"
    /\ UNCHANGED <<registryVars, decoderVars, threadVars>>
    /\ UNCHANGED <<heap, alloc, consumed, unread, cur, cachedProducerPos,
                   bytesAvailable>>
    /\ UNCHANGED <<compressionThreadShouldExit, syncRequested, snap, idx,
                   passBytes, draining, disk, outputOpen, dtor, syncBase,
                   shutdownBase>>

\* The kernel completes the asynchronous write.
AioComplete ==
    /\ aioCb.state = "pending"
    /\ disk' = disk \o bufMem[aioCb.buf]
    /\ aioCb' = [aioCb EXCEPT !.state = "done"]
    /\ UNCHANGED <<ringVars, registryVars, decoderVars>>
    /\ UNCHANGED <<compressionThreadShouldExit, syncRequested,
                   hasOutstandingOperation, snap, idx, passBytes, draining,
                   bufMem, compressingBuffer, outputDoubleBuffer, outputOpen,
                   dtor, syncBase, shutdownBase,
                   totalBytesWritten, padBytesWritten, fileOffset>>

\* The threads blocked in sync().
Waiters == {t \in Threads : tpc[t] = "syncWait"}

\* Worker, steps 4 and 5: a pass that took no bytes, with no write
\* outstanding, signals hintQueueEmptied and clears syncRequested; the
\* worker then starts the next pass (at once, or after the bounded wait on
\* workAdded).  When exiting, a pass that took no bytes ends the draining.
Worker_Hint ==
    /\ wpc = "hint"
    /\ IF draining
       THEN /\ wpc' = IF passBytes = 0 THEN "finish" ELSE "loop"
            /\ UNCHANGED <<tpc, syncRequested>>
       ELSE IF worker_signals(passBytes, Outstanding)
       THEN /\ wpc' = "loop"
            /\ syncRequested' = FALSE
            /\ IF Waiters = {}
               THEN UNCHANGED tpc
               ELSE \E w \in Waiters : tpc' = [tpc EXCEPT ![w] = "syncWoken"]
       ELSE /\ wpc' = "loop"
            /\ UNCHANGED <<tpc, syncRequested>>
    /\ UNCHANGED <<registryVars, decoderVars>>
    /\ UNCHANGED <<heap, alloc, stagingBuffer, nbytes, resPtr,
                   cachedConsumerPos, logged, committed, consumed, unread,
                   cur, cachedProducerPos, bytesAvailable>>
    /\ UNCHANGED <<compressionThreadShouldExit, hasOutstandingOperation, snap,
                   idx, passBytes, draining, bufMem, compressingBuffer,
                   outputDoubleBuffer, aioCb, disk, outputOpen, dtor,
                   syncBase, shutdownBase,
                   totalBytesWritten, padBytesWritten, fileOffset>>

\* waitForAIO, once the write has completed: the request has been waited on.
waitForAIO(cb) == IF cb.state = "done" THEN [cb EXCEPT !.state = "waited"] ELSE cb

\* Worker, at exit, once a pass has found every buffer empty: wait for the
\* outstanding write and submit what is left in the compressing buffer.
Worker_Finish ==
    /\ wpc = "finish"
    /\ ~Outstanding
    /\ IF Len(bufMem[compressingBuffer]) > 0
       THEN /\ LET out == padded(bufMem[compressingBuffer])
               IN /\ bufMem' = [bufMem EXCEPT ![compressingBuffer] = out,
                                              ![outputDoubleBuffer] = <<>>]
                  /\ padBytesWritten' =
                        padBytesWritten + padBytes(Len(bufMem[compressingBuffer]))
                  /\ totalBytesWritten' = totalBytesWritten + Len(out)
                  /\ fileOffset' = fileOffset + Len(out)
            /\ aioCb' = [buf |-> compressingBuffer, state |-> "pending"]
            /\ hasOutstandingOperation' = TRUE
            /\ compressingBuffer' =
                  worker_swap(compressingBuffer,
                              outputDoubleBuffer).compressingBuffer
            /\ outputDoubleBuffer' =
                  worker_swap(compressingBuffer,
                              outputDoubleBuffer).outputDoubleBuffer
       ELSE /\ aioCb' = waitForAIO(aioCb)
            /\ hasOutstandingOperation' = FALSE
            /\ UNCHANGED <<compressingBuffer, outputDoubleBuffer, bufMem,
                           totalBytesWritten, padBytesWritten, fileOffset>>
    /\ wpc' = "close"
    /\ UNCHANGED <<registryVars, decoderVars, threadVars>>
    /\ UNCHANGED <<heap, alloc, consumed, unread, cur, cachedProducerPos,
                   bytesAvailable>>
    /\ UNCHANGED <<compressionThreadShouldExit, syncRequested, snap, idx,
                   passBytes, draining, disk, outputOpen, dtor, syncBase,
                   shutdownBase>>

\* Worker, at exit: wait on the outstanding write, fsync, close the file.
Worker_Close ==
    /\ wpc = "close"
    /\ ~Outstanding
    /\ aioCb' = waitForAIO(aioCb)
    /\ hasOutstandingOperation' = FALSE
    /\ outputOpen' = FALSE
    /\ wpc' = "terminated"
    /\ UNCHANGED <<registryVars, decoderVars, threadVars>>
    /\ UNCHANGED <<heap, alloc, consumed, unread, cur, cachedProducerPos,
                   bytesAvailable>>
    /\ UNCHANGED <<compressionThreadShouldExit, syncRequested, snap, idx,
                   passBytes, draining, bufMem, compressingBuffer,
                   outputDoubleBuffer, disk, dtor, syncBase, shutdownBase,
                   totalBytesWritten, padBytesWritten, fileOffset>>

\* NanoLog::sync(): syncRequested is set, workAdded signalled, and the
\* caller waits on hintQueueEmptied.
Sync_Call(t) ==
    /\ tpc[t] = "idle"
    /\ ~compressionThreadShouldExit
    /\ syncRequested' = TRUE
    /\ tpc' = [tpc EXCEPT ![t] = "syncWait"]
    /\ syncBase' = [syncBase EXCEPT ![t] = AllCommitted]
    /\ UNCHANGED <<registryVars, decoderVars>>
    /\ UNCHANGED <<heap, alloc, stagingBuffer, nbytes, resPtr,
                   cachedConsumerPos, logged, committed, consumed, unread,
                   wpc, cur, cachedProducerPos, bytesAvailable>>
    /\ UNCHANGED <<compressionThreadShouldExit, hasOutstandingOperation, snap,
                   idx, passBytes, draining, bufMem, compressingBuffer,
                   outputDoubleBuffer, aioCb, disk, outputOpen, dtor,
                   shutdownBase,
                   totalBytesWritten, padBytesWritten, fileOffset>>

\* NanoLog::sync() returns.
Sync_Return(t) ==
    /\ tpc[t] = "syncWoken"
    /\ tpc' = [tpc EXCEPT ![t] = "idle"]
    /\ UNCHANGED <<registryVars, outputVars, decoderVars>>
    /\ UNCHANGED <<heap, alloc, stagingBuffer, nbytes, resPtr,
                   cachedConsumerPos, logged, committed, consumed, unread,
                   wpc, cur, cachedProducerPos, bytesAvailable>>

\* ~NanoLog, once the producers have ceased logging: the worker is told to
\* exit.
Dtor_Signal ==
    /\ dtor = "alive"
    /\ \A t \in Threads : tpc[t] \in {"idle", "dead"}
    /\ compressionThreadShouldExit' = TRUE
    /\ shutdownBase' = AllCommitted \ OnDisk
    /\ dtor' = "join"
    /\ UNCHANGED <<ringVars, registryVars, decoderVars>>
    /\ UNCHANGED <<syncRequested, hasOutstandingOperation, snap, idx,
                   passBytes, draining, bufMem, compressingBuffer,
                   outputDoubleBuffer, aioCb, disk, outputOpen, syncBase,
                   totalBytesWritten, padBytesWritten, fileOffset>>

\* ~NanoLog: the worker is joined.
Dtor_Join ==
    /\ dtor = "join"
    /\ wpc = "terminated"
    /\ dtor' = "joined"
    /\ UNCHANGED <<ringVars, registryVars, decoderVars>>
    /\ UNCHANGED <<compressionThreadShouldExit, syncRequested,
                   hasOutstandingOperation, snap, idx, passBytes, draining,
                   bufMem, compressingBuffer, outputDoubleBuffer, aioCb, disk,
                   outputOpen, syncBase, shutdownBase,
                   totalBytesWritten, padBytesWritten, fileOffset>>

\* ~NanoLog: the buffers still registered are destroyed, the file is closed.
Dtor_Destroy ==
    /\ dtor = "joined"
    /\ alloc' = [t \in Threads |->
                   IF t \in Range(threadBuffers) THEN "destroyed" ELSE alloc[t]]
    /\ destroyedBy' = [t \in Threads |->
                   IF t \in Range(threadBuffers) THEN "destructor"
                   ELSE destroyedBy[t]]
    /\ deletable' = [t \in Threads |->
                   IF t \in Range(threadBuffers)
                   THEN /\ heap[t].shouldDeallocate
                        /\ heap[t].consumerPos = heap[t].producerPos
                   ELSE deletable[t]]
    /\ threadBuffers' = <<>>
    /\ outputOpen' = FALSE
    /\ dtor' = "done"
    /\ UNCHANGED <<decoderVars, threadVars>>
    /\ UNCHANGED <<heap, consumed, unread, wpc, cur, cachedProducerPos,
                   bytesAvailable, nextBufferId, bufferId>>
    /\ UNCHANGED <<compressionThreadShouldExit, syncRequested,
                   hasOutstandingOperation, snap, idx, passBytes, draining,
                   bufMem, compressingBuffer, outputDoubleBuffer, aioCb, disk,
                   syncBase, shutdownBase,
                   totalBytesWritten, padBytesWritten, fileOffset>>

\* A user thread makes sure it has a buffer, while the logger is up.
Log_Ensure(t) == ~compressionThreadShouldExit /\ Ensure_AssignId(t)

\* A user thread reserves space for a one-byte record, while the logger is up.
Log_Reserve(t) ==
    /\ ~compressionThreadShouldExit
    /\ logged[t] < MaxLogs
    /\ Reserve(t, 1)

\* A user thread ends before the logger is torn down.
Log_ThreadExit(t) == dtor # "done" /\ ThreadExit(t)

\* The singleton with its worker started, and threads that have not logged.
InitNanoLog ==
    /\ InitThreadLocals
    /\ heap = [t \in Threads |-> StagingBuffer(0)]
    /\ alloc = [t \in Threads |-> "none"]
    /\ stagingBuffer = [t \in Threads |-> NULL]
    /\ wpc = "loop"
    /\ InitLogger
    /\ InitDecoderIdle

\* The steps of the worker's loop and of the kernel.
NextWorker ==
    \/ Worker_Loop
    \/ Worker_Peek
    \/ Worker_Empty
    \/ Worker_Compress
    \/ Worker_PassEnd
    \/ Worker_Rotate
    \/ Worker_Hint
    \/ AioComplete

\* The logger's life: user threads get a buffer, log one-byte records and
\* end; the worker and the kernel run beside them; ~NanoLog ends it.
NextNanoLog ==
    \/ \E t \in LoggerThreads : Log_Ensure(t)
    \/ \E t \in LoggerThreads : Ensure_New(t)
    \/ \E t \in LoggerThreads : Ensure_PushBack(t)
    \/ \E t \in LoggerThreads : Log_Reserve(t)
    \/ \E t \in LoggerThreads : WritePayload(t)
    \/ \E t \in LoggerThreads : Commit(t)
    \/ \E t \in LoggerThreads : Log_ThreadExit(t)
    \/ NextWorker
    \/ Worker_Finish
    \/ Worker_Close
    \/ Dtor_Signal
    \/ Dtor_Join
    \/ Dtor_Destroy

SpecNanoLog == InitNanoLog /\ [][NextNanoLog]_vars

\* User threads get a buffer, log one-byte records and call sync(); the
\* worker and the kernel run beside them.
NextSync ==
    \/ \E t \in LoggerThreads : Log_Ensure(t)
    \/ \E t \in LoggerThreads : Ensure_New(t)
    \/ \E t \in LoggerThreads : Ensure_PushBack(t)
    \/ \E t \in LoggerThreads : Log_Reserve(t)
    \/ \E t \in LoggerThreads : WritePayload(t)
    \/ \E t \in LoggerThreads : Commit(t)
    \/ \E t \in SyncThreads : Sync_Call(t)
    \/ \E t \in SyncThreads : Sync_Return(t)
    \/ NextWorker

SpecSync == InitNanoLog /\ [][NextSync]_vars

\* The threads that call sync() concurrently.
ConcurrentSyncThreads == {1, 2}

\* The steps of the worker's loop alone.
NextWorkerThread ==
    \/ Worker_Loop
    \/ Worker_Peek
    \/ Worker_Empty
    \/ Worker_Compress
    \/ Worker_PassEnd
    \/ Worker_Rotate
    \/ Worker_Hint

\* One thread logs; it and another thread call sync(), any number of times.
NextSyncLive ==
    \/ \E t \in SyncThreads : Log_Ensure(t)
    \/ \E t \in SyncThreads : Ensure_New(t)
    \/ \E t \in SyncThreads : Ensure_PushBack(t)
    \/ \E t \in SyncThreads : Log_Reserve(t)
    \/ \E t \in SyncThreads : WritePayload(t)
    \/ \E t \in SyncThreads : Commit(t)
    \/ \E t \in ConcurrentSyncThreads : Sync_Call(t)
    \/ \E t \in ConcurrentSyncThreads : Sync_Return(t)
    \/ NextWorker

\* A weakly fair worker, a kernel that completes every submitted write, and
\* callers that return from sync() once woken.  The producer, which logs at
\* most MaxLogs records, may stop at any point.
SpecSyncLive ==
    /\ InitNanoLog
    /\ [][NextSyncLive]_vars
    /\ WF_vars(NextWorkerThread)
    /\ WF_vars(AioComplete)
    /\ \A t \in ConcurrentSyncThreads : WF_vars(Sync_Return(t))

-----------------------------------------------------------------------------
(* The decompressor's main *)

\* Largest and smallest int.
INT_MAX == 2147483647
INT_MIN == -INT_MAX - 1

\* Largest number of records in a log file of the model.
MaxRecords == 3

\* The count arguments tried: strings of characters.
CountArgs ==
    { <<>>, <<"0">>, <<"1">>, <<"2">>, <<"5">>, <<"-", "0">>, <<"-", "1">>,
      <<"x">>, <<"2", "x">>, <<" ", "2">>, <<"+", "1">>, <<"-">>,
      <<"2", "1", "4", "7", "4", "8", "3", "6", "4", "7">>,
      <<"2", "1", "4", "7", "4", "8", "3", "6", "4", "8">>,
      <<"-", "2", "1", "4", "7", "4", "8", "3", "6", "4", "8">>,
      <<"9", "9", "9", "9", "9", "9", "9", "9", "9", "9", "9">> }

Digits == <<"0", "1", "2", "3", "4", "5", "6", "7", "8", "9">>
IsDigit(c) == \E d \in 1..10 : Digits[d] = c
DigitVal(c) == (CHOOSE d \in 1..10 : Digits[d] = c) - 1

\* strtol's scan: leading white space is skipped.
RECURSIVE SkipSpace(_, _)
SkipSpace(s, i) ==
    IF i <= Len(s) /\ s[i] = " " THEN SkipSpace(s, i + 1) ELSE i

\* strtol's scan of the digits from position i: the magnitude read so far,
\* whether it has passed INT_MAX, and whether it is exactly INT_MAX + 1.
RECURSIVE ScanDigits(_, _, _)
ScanDigits(s, i, acc) ==
    IF i <= Len(s) /\ IsDigit(s[i])
    THEN LET d == DigitVal(s[i])
             fits == ~acc.over /\ ~acc.edge /\ acc.val <= (INT_MAX - d) \div 10
             edge == ~acc.over /\ ~acc.edge /\ ~fits
                       /\ acc.val = INT_MAX \div 10 /\ d = (INT_MAX % 10) + 1
         IN ScanDigits(s, i + 1,
                       [val  |-> IF fits THEN acc.val * 10 + d ELSE 0,
                        over |-> ~fits /\ ~edge,
                        edge |-> edge,
                        end  |-> i + 1])
    ELSE acc

\* std::stoi(str): white space, an optional sign, then digits; what follows
\* the digits is ignored.  No digit: invalid_argument; a value no int holds:
\* out_of_range.
stoi(s) ==
    LET i == SkipSpace(s, 1)
        neg == i <= Len(s) /\ s[i] = "-"
        j == IF i <= Len(s) /\ s[i] \in {"-", "+"} THEN i + 1 ELSE i
        r == ScanDigits(s, j, [val |-> 0, over |-> FALSE, edge |-> FALSE, end |-> j])
    IN IF r.end = j THEN [throws |-> "invalid_argument", value |-> 0]
       ELSE IF r.over \/ (r.edge /\ ~neg)
       THEN [throws |-> "out_of_range", value |-> 0]
       ELSE IF r.edge THEN [throws |-> "none", value |-> INT_MIN]
       ELSE [throws |-> "none", value |-> IF neg THEN -r.val ELSE r.val]

\* main: 0 messages to print means all of them.
main_unlimited_Keep(m) == m

main_unlimited(m) == IF m = 0 THEN -1 ELSE m

\* main, the status returned after the decoder ran or could not open the file.
main_return == 0

\* main up to the construction of the decoder: the exit taken, if any, and
\* msgsToPrint.
main_arguments(n, arg) ==
    IF n < 2 THEN [exit |-> TRUE, code |-> 1, says |-> "usage", msgs |-> 0]
    ELSE IF n > 2 /\ stoi(arg).throws = "invalid_argument"
    THEN [exit |-> TRUE, code |-> -1, says |-> "invalid", msgs |-> 0]
    ELSE IF n > 2 /\ stoi(arg).throws = "out_of_range"
    THEN [exit |-> TRUE, code |-> -1, says |-> "too large", msgs |-> 0]
    ELSE IF n > 2 /\ stoi(arg).value < 0
    THEN [exit |-> TRUE, code |-> -1, says |-> "must be positive",
          msgs |-> stoi(arg).value]
    ELSE [exit |-> FALSE, code |-> 0, says |-> "",
          msgs |-> main_unlimited(IF n > 2 THEN stoi(arg).value ELSE 0)]

\* Decoder::open(path): false if the file cannot be opened.
Decoder_open == fileOpenable

\* Decoder::decompressUnordered: does it go on to the next record?  It stops
\* after maxMessages records, or at the end of the file when maxMessages < 0.
decompressUnordered_more(done, maxMessages, inFile) ==
    /\ done < inFile
    /\ (maxMessages < 0 \/ done < maxMessages)

\* main, lines 66-95.
Main_Arguments ==
    /\ dpc = "start"
    /\ LET r == main_arguments(argc, countArg)
       IN /\ msgsToPrint' = r.msgs
          /\ diagnostic' = r.says
          /\ IF r.exit
             THEN dpc' = "exited" /\ exitCode' = r.code
             ELSE dpc' = "open" /\ UNCHANGED exitCode
    /\ UNCHANGED <<ringVars, loggerVars>>
    /\ UNCHANGED <<argc, countArg, fileOpenable, fileRecords, rendered>>

\* main, lines 97-100.
Main_Open ==
    /\ dpc = "open"
    /\ IF ~Decoder_open
       THEN dpc' = "return" /\ diagnostic' = "Unable to open file"
       ELSE dpc' = "decode" /\ UNCHANGED diagnostic
    /\ UNCHANGED <<ringVars, loggerVars>>
    /\ UNCHANGED <<argc, countArg, fileOpenable, fileRecords, msgsToPrint,
                   exitCode, rendered>>

\* decompressUnordered(stdout, msgsToPrint): the next record of the file is
\* rendered, or the call returns.
Main_Decompress ==
    /\ dpc = "decode"
    /\ IF decompressUnordered_more(Len(rendered), msgsToPrint, fileRecords)
       THEN rendered' = Append(rendered, Len(rendered) + 1) /\ UNCHANGED dpc
       ELSE dpc' = "return" /\ UNCHANGED rendered
    /\ UNCHANGED <<ringVars, loggerVars>>
    /\ UNCHANGED <<argc, countArg, fileOpenable, fileRecords, msgsToPrint,
                   exitCode, diagnostic>>

\* main, line 104.
Main_Return ==
    /\ dpc = "return"
    /\ dpc' = "exited"
    /\ exitCode' = main_return
    /\ UNCHANGED <<ringVars, loggerVars>>
    /\ UNCHANGED <<argc, countArg, fileOpenable, fileRecords, msgsToPrint,
                   diagnostic, rendered>>

InitDecoder ==
    /\ InitRingIdle
    /\ InitLogger
    /\ argc \in 1..3
    /\ countArg \in CountArgs
    /\ argc < 3 => countArg = <<>>
    /\ fileOpenable \in BOOLEAN
    /\ fileRecords \in 0..MaxRecords
    /\ ~fileOpenable => fileRecords = 0
    /\ dpc = "start"
    /\ msgsToPrint = 0
    /\ exitCode = 0
    /\ diagnostic = ""
    /\ rendered = <<>>

NextDecoder ==
    \/ Main_Arguments
    \/ Main_Open
    \/ Main_Decompress
    \/ Main_Return

SpecDecoder == InitDecoder /\ [][NextDecoder]_vars

-----------------------------------------------------------------------------
(* Properties of the ring *)

IsPrefix(s, t) == Len(s) <= Len(t) /\ \A i \in 1..Len(s) : s[i] = t[i]

Reserved(t) == resPtr[t]..(resPtr[t] + nbytes[t] - 1)

-----------------------------------------------------------------------------
(* Properties of sync() *)

\* Thread t returns from sync() in this step.
SyncReturns(t) == tpc[t] = "syncWoken" /\ tpc'[t] = "idle"

\* C3: sync() returns only after every record committed, by any thread,
\* before the call began has been consumed, compressed, submitted and
\* written: whenever a call returns, the records committed before it began
\* are on disk.
C3_SyncBarrier ==
    [][\A t \in Threads : SyncReturns(t) => syncBase[t] \subseteq OnDisk]_vars

\* C4: a record committed before a call to sync() returns, also one
\* committed by another thread while the call waits, is on disk when the
\* call returns.
C4_SyncBarrierAtReturn ==
    [][\A t \in Threads : SyncReturns(t) => AllCommitted \subseteq OnDisk]_vars

-----------------------------------------------------------------------------
(* Properties of the decompressor *)

\* The count argument as the claims describe it.
CountGiven == argc > 2
CountMalformed == CountGiven /\ (stoi(countArg).throws # "none" \/ stoi(countArg).value < 0)
CountValue == IF CountGiven THEN stoi(countArg).value ELSE 0

\* C5: the decompressor ends with status 1 when the log file argument is
\* missing, -1 when the count argument is malformed or the log file cannot
\* be opened, and 0 otherwise.
C5_ExitCodes ==
    dpc = "exited" =>
        exitCode = IF argc < 2 THEN 1
                   ELSE IF CountMalformed \/ ~fileOpenable THEN -1
                   ELSE 0

Min(a, b) == IF a < b THEN a ELSE b

\* C6: on a file of N records, with a count m > 0 the first min(m, N)
\* records are rendered, in file order; with m = 0 or no count all N are;
\* the status is 0.
C6_CountLimit ==
    (dpc = "exited" /\ argc >= 2 /\ ~CountMalformed /\ fileOpenable) =>
        /\ exitCode = 0
        /\ rendered = [i \in 1..(IF CountValue = 0 THEN fileRecords
                                 ELSE Min(CountValue, fileRecords)) |-> i]

\* C6 witness: a count of 0 on a file of MaxRecords records, all rendered.
C6_Witness ==
    /\ dpc = "exited"
    /\ countArg = <<"0">>
    /\ argc = 3
    /\ fileRecords = MaxRecords
    /\ Len(rendered) = MaxRecords

-----------------------------------------------------------------------------
(* Properties of the registry *)

\* Threads whose call has taken an id, and those that hold a buffer.
HasId(t) == tpc[t] \in {"new", "pushBack"} \/ alloc[t] # "none"
IdOf(t) == IF alloc[t] = "none" THEN bufferId[t] ELSE heap[t].id

\* C7: the ids taken by concurrent calls of ensureStagingBufferAllocated
\* are pairwise distinct, and after k of them the ids taken are 1..k.
C7_DenseIds ==
    /\ \A t, u \in Threads : (HasId(t) /\ HasId(u) /\ t # u) => IdOf(t) # IdOf(u)
    /\ {IdOf(t) : t \in {u \in Threads : HasId(u)}}
         = 1..Cardinality({u \in Threads : HasId(u)})

\* C7 witness: every thread has registered a buffer, and one thread took
\* its id first but registered last.
C7_Witness ==
    /\ Len(threadBuffers) = Cardinality(Threads)
    /\ heap[threadBuffers[Len(threadBuffers)]].id = 1

-----------------------------------------------------------------------------
(* Properties of the buffers' lifecycle and of shutdown *)

InRegistry(b) == b \in Range(threadBuffers)

\* The buffers ensureStagingBufferAllocated has returned.
Registered(b) == alloc[b] # "none" /\ tpc[b] # "pushBack"

\* The statement of the registry's consistency over every allocated buffer,
\* the ones between new and push_back included.
C8_EveryAllocated ==
    \A b \in Threads :
        alloc[b] # "none" =>
            \/ InRegistry(b)
            \/ alloc[b] = "destroyed" /\ deletable[b]

\* C8: every StagingBuffer whose push_back has completed is in the registry
\* or has been destroyed, and one the worker destroyed was destroyed after
\* canDelete() held for it; a buffer not in the registry and not destroyed
\* is between its allocation and its push_back.
C8_RegistryConsistency ==
    \A b \in Threads :
        /\ Registered(b) =>
              \/ InRegistry(b)
              \/ alloc[b] = "destroyed"
        /\ alloc[b] = "destroyed" => ~InRegistry(b)
        /\ destroyedBy[b] = "worker" => deletable[b]
        /\ (alloc[b] = "live" /\ ~InRegistry(b)) => tpc[b] = "pushBack"

\* C8 witness: one buffer is allocated and not yet pushed back, while
\* another was destroyed by the worker.
C8_Witness ==
    \E b, c \in Threads :
        /\ alloc[b] = "live" /\ tpc[b] = "pushBack"
        /\ destroyedBy[c] = "worker"

\* C9: the worker unregisters and destroys a StagingBuffer only in a state
\* where shouldDeallocate is set and consumerPos = producerPos, that is,
\* where its owner has ended and holds no pointer to it, and where it holds
\* no committed unread byte.
C9_WorkerDestroysOnlyDeletable ==
    [][\A b \in Threads :
          (alloc[b] = "live" /\ alloc'[b] = "destroyed" /\ wpc = "empty") =>
              /\ heap[b].shouldDeallocate
              /\ heap[b].consumerPos = heap[b].producerPos
              /\ ~InRegistry(b)'
              /\ tpc[b] = "dead"
              /\ \A t \in Threads : stagingBuffer[t] # b
              /\ unread[b] = {}
              /\ Range(committed[b]) = Range(consumed[b])]_vars

\* C9 witness: the worker has destroyed a buffer whose owner logged and
\* ended, after draining what the owner left in it, while another thread
\* still logs.
C9_Witness ==
    \E b, c \in Threads :
        /\ destroyedBy[b] = "worker"
        /\ Len(consumed[b]) = MaxLogs
        /\ tpc[c] = "write"

\* C10: when the producers have stopped logging before ~NanoLog sets
\* compressionThreadShouldExit, then once the worker is joined every
\* committed record has been consumed and is on disk, no write is
\* outstanding and the file is closed.
C10_ShutdownBarrier ==
    dtor \in {"joined", "done"} =>
        /\ AllCommitted \subseteq OnDisk
        /\ \A b \in Threads : Range(committed[b]) = Range(consumed[b])
        /\ ~Outstanding
        /\ ~outputOpen

\* C10 witness: the worker is joined, and every record of the run was still
\* off the disk when the destructor signalled.
C10_Witness ==
    /\ dtor = "joined"
    /\ Cardinality(shutdownBase) = MaxLogs * Cardinality(LoggerThreads)

\* The statement of shutdown step 4 over every registered buffer, the ones
\* of threads that have not ended included.
C11_AllCanDelete ==
    dtor = "joined" =>
        \A b \in Threads : InRegistry(b) => checkCanDelete(heap[b])

\* C11: at shutdown step 4, after the worker has been joined, every
\* StagingBuffer still in the registry is drained (consumerPos =
\* producerPos, no committed byte unread), and it satisfies canDelete()
\* exactly when its owning thread has ended: the buffer of a thread that
\* stopped logging and lives on has shouldDeallocate false.
C11_RemainingBuffersDrained ==
    dtor = "joined" =>
        \A b \in Threads :
            InRegistry(b) =>
                /\ heap[b].consumerPos = heap[b].producerPos
                /\ unread[b] = {}
                /\ heap[b].shouldDeallocate <=> tpc[b] = "dead"
                /\ checkCanDelete(heap[b]) <=> tpc[b] = "dead"

\* C11 witness: the worker is joined; the registry holds the drained buffer
\* of a thread that logged and lives on, and that of a thread that ended.
C11_Witness ==
    /\ dtor = "joined"
    /\ \E b, c \in Threads :
          /\ InRegistry(b) /\ InRegistry(c)
          /\ tpc[b] = "idle" /\ Len(consumed[b]) = MaxLogs
          /\ tpc[c] = "dead"

-----------------------------------------------------------------------------
(* Properties of reserve under a fair worker *)

\* Thread t is inside reserveSpaceInternal.
InReserveInternal(t) == tpc[t] \in {"slow", "mark", "reset"}

-----------------------------------------------------------------------------
(* Properties of the asynchronous output *)

\* The worker submits a request in this step.
Submits == aioCb' # aioCb /\ aioCb'.state = "pending"

\* C13: there is at most one outstanding asynchronous write: a request is
\* submitted only when the one submitted before it has completed, and
\* hasOutstandingOperation is true exactly while a submitted request has
\* not been waited on.
C13_OneOutstandingWrite ==
    /\ [](hasOutstandingOperation <=> aioCb.state \in {"pending", "done"})
    /\ [][Submits => aioCb.state # "pending"]_vars

\* C13 witness: a second request is pending, submitted by a rotation that
\* found the first one completed, whose bytes are on disk.
C13_Witness ==
    /\ aioCb.state = "pending"
    /\ hasOutstandingOperation
    /\ disk # <<>>
    /\ bufMem[aioCb.buf] # <<>>

\* The bytes submitted for writing so far, in file order.
Submitted ==
    disk \o (IF aioCb.state = "pending" THEN bufMem[aioCb.buf] ELSE <<>>)

\* The number of bytes of a sequence that are not pad bytes.
Payload(seq) == Cardinality({i \in DOMAIN seq : seq[i] # ZeroByte})

\* C14: every submission writes a multiple of A bytes: the compressing
\* buffer is padded with zero bytes to the next multiple of A,
\* padBytesWritten grows by the number of pad bytes, fewer than A, and the
\* file offset by the padded length; so the file offset and
\* totalBytesWritten are multiples of A and equal the payload bytes plus
\* padBytesWritten.
C14_AlignedSubmissions ==
    /\ [](/\ totalBytesWritten % FILE_ALIGNMENT_BYTES = 0
          /\ fileOffset % FILE_ALIGNMENT_BYTES = 0
          /\ fileOffset = totalBytesWritten
          /\ totalBytesWritten = Len(Submitted)
          /\ totalBytesWritten = Payload(Submitted) + padBytesWritten
          /\ aioCb.state = "pending" =>
                Len(bufMem[aioCb.buf]) % FILE_ALIGNMENT_BYTES = 0)
    /\ [][Submits =>
            LET len == Len(bufMem[compressingBuffer])
                pad == padBytesWritten' - padBytesWritten
                out == bufMem'[aioCb'.buf]
            IN /\ pad \in 0..(FILE_ALIGNMENT_BYTES - 1)
               /\ (len + pad) % FILE_ALIGNMENT_BYTES = 0
               /\ Len(out) = len + pad
               /\ \A i \in 1..Len(out) :
                     out[i] = IF i <= len THEN bufMem[compressingBuffer][i]
                              ELSE ZeroByte
               /\ fileOffset' = fileOffset + len + pad
               /\ totalBytesWritten' = totalBytesWritten + len + pad]_vars

\* C14 witness: after several submissions, one of them padded, a padded
\* buffer is pending.
C14_Witness ==
    /\ aioCb.state = "pending"
    /\ Payload(bufMem[aioCb.buf]) < Len(bufMem[aioCb.buf])
    /\ Payload(disk) > 0
    /\ totalBytesWritten > FILE_ALIGNMENT_BYTES

-----------------------------------------------------------------------------
(* Properties of the wrap *)

\* The offsets from a up to, not including, b.
Span(a, b) == a..(b - 1)

-----------------------------------------------------------------------------
(* Properties of the single-writer discipline *)

\* The fields of buffer b other than those listed are the same after the step.
OnlyChanges(b, fields) ==
    \A f \in DOMAIN heap[b] \ fields : heap'[b][f] = heap[b][f]

\* C17: reserve and commit leave consumerPos as it is: commit changes
\* producerPos and minFreeSpace only, a reserve that takes the fast path
\* changes nothing (the payload is written after it); peek and consume
\* change consumerPos only; and shouldDeallocate changes once, from false
\* to true, when the owning thread ends.
C17_SingleWriter ==
    [][\A t \in RingThreads :
          /\ (tpc[t] = "idle" /\ tpc'[t] = "write") => heap'[t] = heap[t]
          /\ (tpc[t] = "commit" /\ tpc'[t] = "idle") =>
                /\ OnlyChanges(t, {"producerPos", "minFreeSpace"})
                /\ heap'[t].producerPos = heap[t].producerPos + nbytes[t]
                /\ heap'[t].minFreeSpace = heap[t].minFreeSpace - nbytes[t]
          /\ tpc'[t] # tpc[t] => heap'[t].consumerPos = heap[t].consumerPos
          /\ ~OnlyChanges(t, {"consumerPos", "shouldDeallocate"}) =>
                /\ tpc[t] \in {"slow", "mark", "reset", "write", "commit"}
                /\ wpc' = wpc /\ bytesAvailable' = bytesAvailable
                /\ heap'[t].consumerPos = heap[t].consumerPos
          /\ (wpc' # wpc \/ bytesAvailable' # bytesAvailable) =>
                OnlyChanges(t, {"consumerPos"})
          /\ heap'[t].consumerPos # heap[t].consumerPos =>
                wpc \in {"peekRoll", "peeked"}
          /\ heap'[t].shouldDeallocate # heap[t].shouldDeallocate =>
                /\ ~heap[t].shouldDeallocate
                /\ heap'[t].shouldDeallocate
                /\ tpc[t] = "idle" /\ tpc'[t] = "dead"
                /\ OnlyChanges(t, {"shouldDeallocate"})]_vars

\* C17 witness: the owner has ended with its buffer wrapped around: the
\* consumer is past an endOfRecordedSpace short of the end of storage and
\* still has bytes of the dead owner to read.
C17_Witness ==
    /\ tpc[1] = "dead"
    /\ heap[1].shouldDeallocate
    /\ heap[1].endOfRecordedSpace < STAGING_BUFFER_SIZE
    /\ wpc = "peeked" /\ cur = 1
    /\ 0 < heap[1].consumerPos
    /\ heap[1].consumerPos < heap[1].producerPos

-----------------------------------------------------------------------------
(* Properties of the double buffer *)

\* C19: the buffer the worker compresses into is never the buffer of an
\* outstanding asynchronous write, whose bytes therefore stay as they were
\* submitted; compressingBuffer and outputDoubleBuffer are always two
\* buffers, and each rotation exchanges them and leaves the new compressing
\* buffer empty.
C19_DoubleBufferExclusion ==
    /\ [](/\ compressingBuffer # outputDoubleBuffer
          /\ aioCb.state = "pending" => aioCb.buf # compressingBuffer)
    /\ [][Submits =>
            /\ aioCb'.buf = compressingBuffer
            /\ compressingBuffer' = outputDoubleBuffer
            /\ outputDoubleBuffer' = compressingBuffer
            /\ compressingBuffer' # outputDoubleBuffer'
            /\ bufMem'[compressingBuffer'] = <<>>]_vars
    /\ [][(aioCb.state = "pending" /\ aioCb' = aioCb) =>
            bufMem'[aioCb.buf] = bufMem[aioCb.buf]]_vars
    /\ [][~Submits =>
            /\ compressingBuffer' = compressingBuffer
            /\ outputDoubleBuffer' = outputDoubleBuffer]_vars

\* C19 witness: a rotation has exchanged the two buffers, and the worker
\* has compressed a record into the new compressing buffer while the write
\* of the other one is outstanding.
C19_Witness ==
    /\ aioCb.state = "pending"
    /\ hasOutstandingOperation
    /\ aioCb.buf = 0
    /\ outputDoubleBuffer = 0
    /\ compressingBuffer = 1
    /\ bufMem[compressingBuffer] # <<>>
    /\ bufMem[aioCb.buf] # <<>>

-----------------------------------------------------------------------------
(* Liveness of sync() *)

\* C20: once the producers have stopped committing, with every submitted
\* write completing and a weakly fair worker, every call of sync() returns,
\* also when several threads call sync() concurrently and share
\* syncRequested and hintQueueEmptied.
C20_SyncReturns ==
    \A t \in ConcurrentSyncThreads : (tpc[t] = "syncWait") ~> (tpc[t] = "idle")

====
